---- MODULE Spec2Model ----
(***************************************************************************)
(* A model of tonitrnel/virt-detect:                                       *)
(*   - src/src/machine_id.rs: get_machine_id_with_factors (the             *)
(*     orchestrator) and wmi_worker_thread (the worker), two threads that  *)
(*     talk over two std::sync::mpsc channels;                             *)
(*   - src/src/lib.rs and src/src/windows_feature.rs: the feature probes   *)
(*     is_hyperv_enabled and is_wsl_enabled.                               *)
(***************************************************************************)
EXTENDS Naturals, Integers, Sequences, FiniteSets, TLC

(***************************************************************************)
(* Strings.  A Rust String is a TLA+ string; Option<T> is a sequence of    *)
(* length 0 (None) or 1 (Some).                                            *)
(***************************************************************************)
None == <<>>

Some(x) == <<x>>

IsSome(o) == Len(o) = 1

Unwrap(o) == o[1]

\* The characters the model's strings are made of, in byte (ASCII) order,
\* which is the order of str::cmp.
CharOrder == "\t .0123456789:;ABCDEFGHIJKLMNOPQRSTUVWXYZ\\_abcdefghijklmnopqrstuvwxyz|"

UpperChars == "ABCDEFGHIJKLMNOPQRSTUVWXYZ"

LowerChars == "abcdefghijklmnopqrstuvwxyz"

CharAt(s, i) == SubSeq(s, i, i)

CharCode(c) == CHOOSE i \in 1..Len(CharOrder) : CharAt(CharOrder, i) = c

\* char::is_whitespace, on the characters of the model
IsWhitespace(c) == c \in {" ", "\t"}

\* char::to_lowercase
LowerChar(c) ==
    IF \E i \in 1..Len(UpperChars) : CharAt(UpperChars, i) = c
    THEN CharAt(LowerChars, CHOOSE i \in 1..Len(UpperChars) : CharAt(UpperChars, i) = c)
    ELSE c

RECURSIVE to_lowercase(_)
to_lowercase(s) ==
    IF Len(s) = 0 THEN ""
    ELSE LowerChar(CharAt(s, 1)) \o to_lowercase(SubSeq(s, 2, Len(s)))

RECURSIVE trim_start(_)
trim_start(s) ==
    IF Len(s) > 0 /\ IsWhitespace(CharAt(s, 1))
    THEN trim_start(SubSeq(s, 2, Len(s)))
    ELSE s

RECURSIVE trim_end(_)
trim_end(s) ==
    IF Len(s) > 0 /\ IsWhitespace(CharAt(s, Len(s)))
    THEN trim_end(SubSeq(s, 1, Len(s) - 1))
    ELSE s

\* str::trim
trim(s) == trim_end(trim_start(s))

\* str::starts_with
starts_with(s, p) == Len(p) <= Len(s) /\ SubSeq(s, 1, Len(p)) = p

\* str::contains
contains(s, p) ==
    \E i \in 1..(Len(s) + 1) :
        i + Len(p) - 1 <= Len(s) /\ SubSeq(s, i, i + Len(p) - 1) = p

\* str::cmp: a < b in byte order
RECURSIVE StrLess(_, _)
StrLess(a, b) ==
    IF Len(b) = 0 THEN FALSE
    ELSE IF Len(a) = 0 THEN TRUE
    ELSE IF CharAt(a, 1) = CharAt(b, 1)
         THEN StrLess(SubSeq(a, 2, Len(a)), SubSeq(b, 2, Len(b)))
         ELSE CharCode(CharAt(a, 1)) < CharCode(CharAt(b, 1))

\* The elements of a set of strings in ascending order: the iteration order
\* of a BTreeSet<String>, and the result of sort() on a Vec of distinct strings.
RECURSIVE SortedSeq(_)
SortedSeq(S) ==
    IF S = {} THEN <<>>
    ELSE LET m == CHOOSE x \in S : \A y \in S \ {x} : StrLess(x, y)
         IN  <<m>> \o SortedSeq(S \ {m})

\* slice::join
RECURSIVE join(_, _)
join(v, sep) ==
    IF Len(v) = 0 THEN ""
    ELSE IF Len(v) = 1 THEN v[1]
    ELSE v[1] \o sep \o join(Tail(v), sep)

\* sanitize_string without the comparison with "o.e.m."
sanitize_string_keeping_oem(s) ==
    IF ~IsSome(s) THEN None
    ELSE LET val == to_lowercase(trim(Unwrap(s)))
         IN  IF /\ Len(val) > 0
                /\ ~contains(val, "to be filled by o.e.m.")
                /\ ~contains(val, "default string")
                /\ ~contains(val, "none")
                /\ val # "00000000"
             THEN Some(val)
             ELSE None

\* sanitize_string: trim, lower-case, and drop empty or placeholder values
sanitize_string(s) ==
    IF ~IsSome(s) THEN None
    ELSE LET val == to_lowercase(trim(Unwrap(s)))
         IN  IF /\ Len(val) > 0
                /\ ~contains(val, "to be filled by o.e.m.")
                /\ ~contains(val, "default string")
                /\ ~contains(val, "none")
                /\ val # "00000000"
                /\ val # "o.e.m."
             THEN Some(val)
             ELSE None

(***************************************************************************)
(* Messages (machine_id.rs).                                               *)
(***************************************************************************)
\* enum WMIQueryRequest
QueryRequests ==
    {"GetBaseboard", "GetProcessor", "GetDisksDerives", "GetDiskPartitions",
     "GetVideoControllers"}

WMIQueryRequest == QueryRequests \cup {"Shutdown"}

\* enum MachineIdError, with its message
MachineIdError(kind, msg) == [kind |-> kind, msg |-> msg]

\* enum WMIQueryResult: a variant tag and its payload
WMIQueryResult(tag, data) == [tag |-> tag, data |-> data]

\* struct BaseBoard
BaseBoard(manufacturer, product, serial_number) ==
    [manufacturer |-> manufacturer, product |-> product, serial_number |-> serial_number]

\* struct Processor
Processor(name, processor_id) == [name |-> name, processor_id |-> processor_id]

\* struct DiskDrive
DiskDrive(serial_number, model, index) ==
    [serial_number |-> serial_number, model |-> model, index |-> index]

\* struct DiskPartition
DiskPartition(disk_index) == [disk_index |-> disk_index]

\* struct VideoController
VideoController(name, adapter_compatibility, pnp_device_id) ==
    [name |-> name, adapter_compatibility |-> adapter_compatibility,
     pnp_device_id |-> pnp_device_id]

(***************************************************************************)
(* The backend (COM/WMI), an external collaborator: what a call to it can  *)
(* yield.  The rows are drawn from small sets of sample records.           *)
(***************************************************************************)
SampleBaseBoards ==
    { <<>>,
      <<BaseBoard(Some(" ACME "), Some("Default string"), None)>>,
      <<BaseBoard(Some("None"), None, Some("00000000"))>> }

SampleProcessors ==
    { <<>>, <<Processor(Some("Xeon"), Some("BFEB"))>> }

SampleDiskPartitions ==
    { <<>>, <<DiskPartition(1), DiskPartition(0)>> }

SampleDiskDrives ==
    { <<DiskDrive(Some("S0"), Some("M0"), 0)>>,
      <<DiskDrive(Some("S0"), Some("M0"), 0), DiskDrive(Some(" s1 "), None, 1)>> }

SampleVideoControllers ==
    { <<>>,
      <<VideoController(Some("Basic"), Some("MS"), Some("ROOT\\BASIC")),
        VideoController(Some("GTX"), Some("NVIDIA"), Some("PCI\\VEN_10DE"))>> }

\* The rows a query for `req` may return
SampleRows(req) ==
    CASE req = "GetBaseboard" -> SampleBaseBoards
      [] req = "GetProcessor" -> SampleProcessors
      [] req = "GetDisksDerives" -> SampleDiskDrives
      [] req = "GetDiskPartitions" -> SampleDiskPartitions
      [] req = "GetVideoControllers" -> SampleVideoControllers

\* wmi_con.query / raw_query: Ok(rows), Err(e), or a panic
QueryOutcomes(req) ==
    {[kind |-> "Ok", rows |-> r] : r \in SampleRows(req)}
        \cup {[kind |-> "Err", rows |-> <<>>], [kind |-> "Panic", rows |-> <<>>]}

\* COMLibrary::new().and_then(WMIConnection::new): Ok, Err(e), or a panic
InitOutcomes == {"Ok", "Err", "Panic"}

\* Dropping the connection when the worker function ends: returns, or panics
TeardownOutcomes == {"Ok", "Panic"}

\* results.into_iter().next()
First(rows) == IF Len(rows) = 0 THEN None ELSE Some(rows[1])

\* The variant that carries the answer to a request
VariantOf(req) ==
    CASE req = "GetBaseboard" -> "Baseboard"
      [] req = "GetProcessor" -> "Processor"
      [] req = "GetDisksDerives" -> "DiskDrives"
      [] req = "GetDiskPartitions" -> "DiskPartitions"
      [] req = "GetVideoControllers" -> "VideoControllers"

\* The query's name in the error message of a failed query
QueryName(req) ==
    CASE req = "GetBaseboard" -> "Baseboard"
      [] req = "GetProcessor" -> "Processor"
      [] req = "GetDisksDerives" -> "DiskDrives"
      [] req = "GetDiskPartitions" -> "DiskPartitions"
      [] req = "GetVideoControllers" -> "VideoControllers"

\* ResultFor with the variants of the two disk queries exchanged
ResultForExchanged(req, outcome) ==
    IF outcome.kind = "Err"
    THEN WMIQueryResult("Error",
             MachineIdError("QueryError", QueryName(req) \o " query failed"))
    ELSE IF req \in {"GetBaseboard", "GetProcessor"}
         THEN WMIQueryResult(VariantOf(req), First(outcome.rows))
         ELSE WMIQueryResult(
                  CASE req = "GetDisksDerives" -> "DiskPartitions"
                    [] req = "GetDiskPartitions" -> "DiskDrives"
                    [] OTHER -> VariantOf(req),
                  outcome.rows)

\* The match of wmi_worker_thread's loop body: the result to send for a
\* request, given what the backend returned
ResultFor(req, outcome) ==
    IF outcome.kind = "Err"
    THEN WMIQueryResult("Error",
             MachineIdError("QueryError", QueryName(req) \o " query failed"))
    ELSE IF req \in {"GetBaseboard", "GetProcessor"}
         THEN WMIQueryResult(VariantOf(req), First(outcome.rows))
         ELSE WMIQueryResult(VariantOf(req), outcome.rows)

\* The response the worker sends when COM/WMI initialization fails
InitErrorResult ==
    WMIQueryResult("Error",
        MachineIdError("WMIInitialization", "WMI worker failed to initialize"))

(***************************************************************************)
(* State.                                                                  *)
(***************************************************************************)
VARIABLES
    reqCh,              \* the request channel's buffer
    respCh,             \* the response channel's buffer
    tx_request,         \* the orchestrator's Sender<WMIQueryRequest> is alive
    rx_request,         \* the worker's Receiver<WMIQueryRequest> is alive
    tx_response,        \* the worker's Sender<WMIQueryResult> is alive
    rx_response,        \* the orchestrator's Receiver<WMIQueryResult> is alive
    wpc,                \* the worker's position
    request,            \* the worker's loop variable
    result_to_send,     \* the worker's result_to_send
    wdrops,             \* what the worker has still to drop before it ends
    panicked,           \* the worker thread panicked
    opc,                \* the orchestrator's position
    cur,                \* the request of the query_wmi! the orchestrator is in
    factors,            \* the orchestrator's BTreeSet<String>
    system_disk_index,  \* the orchestrator's Option<u32>
    result,             \* what get_machine_id_with_factors returned
    sent,               \* history: the requests put on the request channel
    received,           \* history: the requests the worker took from it
    responded,          \* history: the responses put on the response channel
    consumed,           \* history: the responses taken from the response channel
    inits,              \* history: the outcomes of the backend initializations
    nQuery,             \* history: backend queries executed
    probe,              \* the feature probe that was called
    ppc,                \* the probe's position
    details,            \* the probe's `details` vector
    status,             \* the FeatureStatus the probe returned
    calls,              \* history: the detection methods the probe invoked
    host,               \* the machine the probe runs on
    fpc,                \* the position of a call of a single function
    args,               \* that call's arguments
    ret                 \* that call's return value

chanVars == <<reqCh, respCh, tx_request, rx_request, tx_response, rx_response>>

workerVars == <<wpc, request, result_to_send, wdrops, panicked>>

orchVars == <<opc, cur, factors, system_disk_index, result>>

histVars == <<sent, received, responded, consumed, inits, nQuery>>

machineIdVars == <<chanVars, workerVars, orchVars, histVars>>

probeVars == <<probe, ppc, details, status, calls, host>>

callVars == <<fpc, args, ret>>

vars == <<machineIdVars, probeVars, callVars>>

Pending == [tag |-> "Pending"]

Err(e) == [tag |-> "Err", error |-> e]

Ok(id, fs) == [tag |-> "Ok", id |-> id, factors |-> fs]

(***************************************************************************)
(* std::sync::mpsc.  send fails when the receiver is gone; recv yields the *)
(* buffered messages first and fails once the buffer is empty and the      *)
(* sender is gone; dropping a receiver discards what is buffered.          *)
(***************************************************************************)
\* What the worker drops, in order, when its loop ends or a query panics:
\* the loop's iterator (rx_request), then wmi_con, then tx_response
LoopExitDrops == <<"rx_request", "wmi_con", "tx_response">>

\* What the worker drops, in order, when initialization fails or panics: its
\* parameters, last declared first
InitExitDrops == <<"tx_response", "rx_request">>

(***************************************************************************)
(* wmi_worker_thread                                                       *)
(***************************************************************************)
\* COMLibrary::new() and WMIConnection::new(), once, at the start
WorkerInit ==
    /\ wpc = "init"
    /\ \E o \in InitOutcomes :
        /\ inits' = Append(inits, o)
        /\ CASE o = "Ok" ->
                  /\ wpc' = "recv"
                  /\ UNCHANGED <<wdrops, panicked>>
             [] o = "Err" ->
                  /\ wpc' = "init_failed"
                  /\ UNCHANGED <<wdrops, panicked>>
             [] o = "Panic" ->
                  /\ wpc' = "exit"
                  /\ wdrops' = InitExitDrops
                  /\ panicked' = TRUE
    /\ UNCHANGED <<chanVars, request, result_to_send, orchVars,
                   sent, received, responded, consumed, nQuery>>
    /\ UNCHANGED <<probeVars, callVars>>

\* WorkerSendInitError without the `return`: the worker goes on into its loop
WorkerSendInitErrorNoReturn ==
    /\ wpc = "init_failed"
    /\ IF rx_response
       THEN /\ respCh' = Append(respCh, InitErrorResult)
            /\ responded' = Append(responded, InitErrorResult)
       ELSE UNCHANGED <<respCh, responded>>
    /\ wpc' = "recv"
    /\ UNCHANGED <<reqCh, tx_request, rx_request, tx_response, rx_response,
                   request, result_to_send, wdrops, panicked, orchVars,
                   sent, received, consumed, inits, nQuery>>
    /\ UNCHANGED <<probeVars, callVars>>

\* The Err arm of the match on wmi_con_result: `let _ = tx_response.send(..)`
\* and return
WorkerSendInitError ==
    /\ wpc = "init_failed"
    /\ IF rx_response
       THEN /\ respCh' = Append(respCh, InitErrorResult)
            /\ responded' = Append(responded, InitErrorResult)
       ELSE UNCHANGED <<respCh, responded>>
    /\ wpc' = "exit"
    /\ wdrops' = InitExitDrops
    /\ UNCHANGED <<reqCh, tx_request, rx_request, tx_response, rx_response,
                   request, result_to_send, panicked, orchVars,
                   sent, received, consumed, inits, nQuery>>
    /\ UNCHANGED <<probeVars, callVars>>

\* WorkerRecv with Shutdown skipped (`continue`) instead of ending the loop
WorkerRecvShutdownContinues ==
    /\ wpc = "recv"
    /\ \/ /\ reqCh # <<>>
          /\ request' = Head(reqCh)
          /\ reqCh' = Tail(reqCh)
          /\ received' = Append(received, Head(reqCh))
          /\ IF Head(reqCh) = "Shutdown"
             THEN wpc' = "recv" /\ UNCHANGED wdrops
             ELSE wpc' = "query" /\ UNCHANGED wdrops
       \/ /\ reqCh = <<>>
          /\ ~tx_request
          /\ wpc' = "exit"
          /\ wdrops' = LoopExitDrops
          /\ UNCHANGED <<reqCh, request, received>>
    /\ UNCHANGED <<respCh, tx_request, rx_request, tx_response, rx_response,
                   result_to_send, panicked, orchVars,
                   sent, responded, consumed, inits, nQuery>>
    /\ UNCHANGED <<probeVars, callVars>>

\* `for request in rx_request`: the next request, or the end of the loop when
\* the channel is empty and closed; Shutdown breaks out of the loop
WorkerRecv ==
    /\ wpc = "recv"
    /\ \/ /\ reqCh # <<>>
          /\ request' = Head(reqCh)
          /\ reqCh' = Tail(reqCh)
          /\ received' = Append(received, Head(reqCh))
          /\ IF Head(reqCh) = "Shutdown"
             THEN wpc' = "exit" /\ wdrops' = LoopExitDrops
             ELSE wpc' = "query" /\ UNCHANGED wdrops
       \/ /\ reqCh = <<>>
          /\ ~tx_request
          /\ wpc' = "exit"
          /\ wdrops' = LoopExitDrops
          /\ UNCHANGED <<reqCh, request, received>>
    /\ UNCHANGED <<respCh, tx_request, rx_request, tx_response, rx_response,
                   result_to_send, panicked, orchVars,
                   sent, responded, consumed, inits, nQuery>>
    /\ UNCHANGED <<probeVars, callVars>>

\* The blocking backend query of the request's match arm
WorkerQuery ==
    /\ wpc = "query"
    /\ nQuery' = nQuery + 1
    /\ \E o \in QueryOutcomes(request) :
        IF o.kind = "Panic"
        THEN /\ wpc' = "exit"
             /\ wdrops' = LoopExitDrops
             /\ panicked' = TRUE
             /\ UNCHANGED result_to_send
        ELSE /\ wpc' = "send"
             /\ result_to_send' = ResultFor(request, o)
             /\ UNCHANGED <<wdrops, panicked>>
    /\ UNCHANGED <<chanVars, request, orchVars,
                   sent, received, responded, consumed, inits>>
    /\ UNCHANGED <<probeVars, callVars>>

\* WorkerSend with the send's error ignored (`let _ = tx_response.send(..)`)
WorkerSendIgnoresError ==
    /\ wpc = "send"
    /\ IF rx_response
       THEN /\ respCh' = Append(respCh, result_to_send)
            /\ responded' = Append(responded, result_to_send)
       ELSE UNCHANGED <<respCh, responded>>
    /\ wpc' = "recv"
    /\ UNCHANGED <<reqCh, tx_request, rx_request, tx_response, rx_response,
                   request, result_to_send, wdrops, panicked, orchVars,
                   sent, received, consumed, inits, nQuery>>
    /\ UNCHANGED <<probeVars, callVars>>

\* WorkerSend with a response sent twice
WorkerSendTwice ==
    /\ wpc = "send"
    /\ IF rx_response
       THEN /\ respCh' = respCh \o <<result_to_send, result_to_send>>
            /\ responded' = responded \o <<result_to_send, result_to_send>>
            /\ wpc' = "recv"
            /\ UNCHANGED wdrops
       ELSE /\ wpc' = "exit"
            /\ wdrops' = LoopExitDrops
            /\ UNCHANGED <<respCh, responded>>
    /\ UNCHANGED <<reqCh, tx_request, rx_request, tx_response, rx_response,
                   request, result_to_send, panicked, orchVars,
                   sent, received, consumed, inits, nQuery>>
    /\ UNCHANGED <<probeVars, callVars>>

\* `if tx_response.send(result_to_send).is_err() { break; }`
WorkerSend ==
    /\ wpc = "send"
    /\ IF rx_response
       THEN /\ respCh' = Append(respCh, result_to_send)
            /\ responded' = Append(responded, result_to_send)
            /\ wpc' = "recv"
            /\ UNCHANGED wdrops
       ELSE /\ wpc' = "exit"
            /\ wdrops' = LoopExitDrops
            /\ UNCHANGED <<respCh, responded>>
    /\ UNCHANGED <<reqCh, tx_request, rx_request, tx_response, rx_response,
                   request, result_to_send, panicked, orchVars,
                   sent, received, consumed, inits, nQuery>>
    /\ UNCHANGED <<probeVars, callVars>>

\* The end of the worker function: its values are dropped one by one and the
\* thread ends.  Dropping wmi_con calls into the backend a last time.
WorkerDrop ==
    /\ wpc = "exit"
    /\ wdrops # <<>>
    /\ wdrops' = Tail(wdrops)
    /\ wpc' = IF Tail(wdrops) = <<>> THEN "terminated" ELSE "exit"
    /\ CASE Head(wdrops) = "rx_request" ->
                /\ rx_request' = FALSE
                /\ reqCh' = <<>>
                /\ UNCHANGED <<tx_response, panicked>>
         [] Head(wdrops) = "tx_response" ->
                /\ tx_response' = FALSE
                /\ UNCHANGED <<rx_request, reqCh, panicked>>
         [] Head(wdrops) = "wmi_con" ->
                /\ \E o \in (IF panicked THEN {"Ok"} ELSE TeardownOutcomes) :
                       panicked' = (panicked \/ o = "Panic")
                /\ UNCHANGED <<rx_request, reqCh, tx_response>>
    /\ UNCHANGED <<respCh, tx_request, rx_response, request, result_to_send,
                   orchVars, histVars>>
    /\ UNCHANGED <<probeVars, callVars>>

wmi_worker_thread ==
    \/ WorkerInit
    \/ WorkerSendInitError
    \/ WorkerRecv
    \/ WorkerQuery
    \/ WorkerSend
    \/ WorkerDrop

(***************************************************************************)
(* get_machine_id_with_factors: the handlers of its query_wmi! calls       *)
(***************************************************************************)
\* `if let Some(val) = sanitize_string(field) { factors.insert(format!("<tag>{}", val)) }`
Tagged(tag, field) ==
    LET val == sanitize_string(field)
    IN  IF IsSome(val) THEN {tag \o Unwrap(val)} ELSE {}

\* BaseboardHandler inserting a factor, with an empty value, for a field that
\* is absent or sanitized away
BaseboardHandlerTaggingAbsent(res, fs) ==
    IF res.tag = "Baseboard" /\ IsSome(res.data)
    THEN LET bios == Unwrap(res.data)
             valueOf(field) == IF IsSome(sanitize_string(field))
                               THEN Unwrap(sanitize_string(field)) ELSE ""
         IN  fs \cup {"bios_manufacturer:" \o valueOf(bios.manufacturer),
                      "bios_model:" \o valueOf(bios.product),
                      "bios_serial:" \o valueOf(bios.serial_number)}
    ELSE fs

\* The handler of GetBaseboard
BaseboardHandler(res, fs) ==
    IF res.tag = "Baseboard" /\ IsSome(res.data)
    THEN LET bios == Unwrap(res.data)
         IN  fs \cup Tagged("bios_manufacturer:", bios.manufacturer)
                \cup Tagged("bios_model:", bios.product)
                \cup Tagged("bios_serial:", bios.serial_number)
    ELSE fs

\* The handler of GetProcessor
ProcessorHandler(res, fs) ==
    IF res.tag = "Processor" /\ IsSome(res.data)
    THEN LET cpu == Unwrap(res.data)
         IN  fs \cup Tagged("cpu_name:", cpu.name)
                \cup Tagged("cpu_id:", cpu.processor_id)
    ELSE fs

\* The handler of GetDiskPartitions: partitions.first().map(|it| it.disk_index)
DiskPartitionsHandler(res, sdi) ==
    IF res.tag = "DiskPartitions"
    THEN IF Len(res.data) = 0 THEN None ELSE Some(res.data[1].disk_index)
    ELSE sdi

\* FindDisk taking the first drive of the list, whatever its index
FindFirstDisk(disks, disk_index) ==
    IF Len(disks) = 0 THEN None ELSE Some(disks[1])

\* disks.into_iter().find(|disk| disk.index == disk_index)
FindDisk(disks, disk_index) ==
    LET hits == {k \in 1..Len(disks) : disks[k].index = disk_index}
    IN  IF hits = {} THEN None
        ELSE Some(disks[CHOOSE k \in hits : \A j \in hits : k <= j])

\* The handler of GetDisksDerives
DiskDrivesHandler(res, fs, disk_index) ==
    IF res.tag = "DiskDrives" /\ IsSome(FindDisk(res.data, disk_index))
    THEN LET disk == Unwrap(FindDisk(res.data, disk_index))
         IN  fs \cup Tagged("disk_model:", disk.model)
                \cup Tagged("disk_serial:", disk.serial_number)
    ELSE fs

\* IsPci taking every controller for a PCI device
IsPciAlways(vc) == TRUE

\* pnp_device_id.as_ref().map(|it| it.starts_with(r"PCI\VEN_")).unwrap_or(false)
IsPci(vc) ==
    IF IsSome(vc.pnp_device_id)
    THEN starts_with(Unwrap(vc.pnp_device_id), "PCI\\VEN_")
    ELSE FALSE

\* `if let Some(val) = sanitize_string(field) { gpu_factors.push(format!(..)) }`
Pushed(tag, field) ==
    LET val == sanitize_string(field)
    IN  IF IsSome(val) THEN <<tag \o Unwrap(val)>> ELSE <<>>

\* gpu_factors of the controller at position i (from 0) of the list
GpuFactors(i, vc) ==
    Pushed("gpu" \o ToString(i) \o "_manufacturer:", vc.adapter_compatibility)
        \o Pushed("gpu" \o ToString(i) \o "_model:", vc.name)
        \o Pushed("gpu" \o ToString(i) \o "_pnp_id:", vc.pnp_device_id)

\* Vec::sort, for a vector of distinct strings
sort(v) == SortedSeq({v[k] : k \in 1..Len(v)})

\* The handler of GetVideoControllers
VideoControllersHandler(res, fs) ==
    IF res.tag = "VideoControllers"
    THEN fs \cup { join(sort(GpuFactors(k - 1, res.data[k])), ";") :
                     k \in {j \in 1..Len(res.data) :
                              /\ IsPci(res.data[j])
                              /\ Len(GpuFactors(j - 1, res.data[j])) > 0} }
    ELSE fs

\* Sha256 of a string, as lowercase hex: an injective function of the string
\* (collisions are left out)
to_hex_sha256(str) == <<"sha256", str>>

\* combined_string made of the first factor only
combined_string_of_first(fs) == IF fs = {} THEN "" ELSE SortedSeq(fs)[1]

\* combined_string with the factors joined in descending order
combined_string_descending(fs) ==
    join([k \in 1..Cardinality(fs) |-> SortedSeq(fs)[Cardinality(fs) + 1 - k]], "|")

\* combined_string: the factors, in the set's order, joined with "|"
combined_string(fs) == join(SortedSeq(fs), "|")

\* Fingerprint without the check for an empty factor set
FingerprintOfAnySet(fs) == Ok(to_hex_sha256(combined_string(fs)), fs)

\* The tail of the function: NoFactorsFound, or the digest of the factors
\* joined with "|" in the set's order
Fingerprint(fs) ==
    IF fs = {} THEN Err(MachineIdError("NoFactorsFound", ""))
    ELSE Ok(to_hex_sha256(combined_string(fs)), fs)

(***************************************************************************)
(* get_machine_id_with_factors: the orchestrator                           *)
(***************************************************************************)
\* Return with the request sender kept alive (leaked) instead of dropped
ReturnKeepingSender(r) ==
    /\ result' = r
    /\ opc' = "returned"
    /\ tx_request' = tx_request
    /\ rx_response' = FALSE
    /\ respCh' = <<>>

\* A return: the function's channel ends are dropped (the worker's handle
\* too, which detaches the thread if it was not joined)
Return(r) ==
    /\ result' = r
    /\ opc' = "returned"
    /\ tx_request' = FALSE
    /\ rx_response' = FALSE
    /\ respCh' = <<>>

\* query_wmi!, first half: `tx_request.send($req)?`
OrchSend ==
    /\ opc = "send"
    /\ IF rx_request
       THEN /\ reqCh' = Append(reqCh, cur)
            /\ sent' = Append(sent, cur)
            /\ opc' = "recv"
            /\ UNCHANGED <<respCh, tx_request, rx_response, result>>
       ELSE /\ Return(Err(MachineIdError("ChannelSend", "sending on a closed channel")))
            /\ UNCHANGED <<reqCh, sent>>
    /\ UNCHANGED <<rx_request, tx_response, workerVars, cur, factors,
                   system_disk_index, received, responded, consumed, inits, nQuery>>
    /\ UNCHANGED <<probeVars, callVars>>

\* NextRequest going from GetBaseboard straight to GetDiskPartitions
NextRequestSkippingProcessor(req, sdi) ==
    CASE req = "GetBaseboard" -> "GetDiskPartitions"
      [] req = "GetProcessor" -> "GetDiskPartitions"
      [] req = "GetDiskPartitions" ->
            IF IsSome(sdi) THEN "GetDisksDerives" ELSE "GetVideoControllers"
      [] req = "GetDisksDerives" -> "GetVideoControllers"
      [] req = "GetVideoControllers" -> "Shutdown"

\* The request that follows `req` in the function's text
NextRequest(req, sdi) ==
    CASE req = "GetBaseboard" -> "GetProcessor"
      [] req = "GetProcessor" -> "GetDiskPartitions"
      [] req = "GetDiskPartitions" ->
            IF IsSome(sdi) THEN "GetDisksDerives" ELSE "GetVideoControllers"
      [] req = "GetDisksDerives" -> "GetVideoControllers"
      [] req = "GetVideoControllers" -> "Shutdown"

\* The handler query_wmi! is given for `req`, applied to a response
HandledFactors(req, res, fs, sdi) ==
    CASE req = "GetBaseboard" -> BaseboardHandler(res, fs)
      [] req = "GetProcessor" -> ProcessorHandler(res, fs)
      [] req = "GetDiskPartitions" -> fs
      [] req = "GetDisksDerives" -> DiskDrivesHandler(res, fs, Unwrap(sdi))
      [] req = "GetVideoControllers" -> VideoControllersHandler(res, fs)

HandledDiskIndex(req, res, sdi) ==
    IF req = "GetDiskPartitions" THEN DiskPartitionsHandler(res, sdi) ELSE sdi

\* query_wmi!, second half: `match rx_response.recv()? { Error(e) => return
\* Err(e), result => $handler(result, &mut factors) }`
OrchRecv ==
    /\ opc = "recv"
    /\ \/ /\ respCh # <<>>
          /\ consumed' = Append(consumed, Head(respCh))
          /\ IF Head(respCh).tag = "Error"
             THEN /\ Return(Err(Head(respCh).data))
                  /\ UNCHANGED <<cur, factors, system_disk_index>>
             ELSE /\ respCh' = Tail(respCh)
                  /\ factors' = HandledFactors(cur, Head(respCh), factors,
                                               system_disk_index)
                  /\ system_disk_index' =
                        HandledDiskIndex(cur, Head(respCh), system_disk_index)
                  /\ cur' = NextRequest(cur, system_disk_index')
                  /\ opc' = IF cur' = "Shutdown" THEN "shutdown" ELSE "send"
                  /\ UNCHANGED <<tx_request, rx_response, result>>
       \/ /\ respCh = <<>>
          /\ ~tx_response
          /\ Return(Err(MachineIdError("ChannelRecv", "receiving on a closed channel")))
          /\ UNCHANGED <<cur, factors, system_disk_index, consumed>>
    /\ UNCHANGED <<reqCh, rx_request, tx_response, workerVars,
                   sent, received, responded, inits, nQuery>>
    /\ UNCHANGED <<probeVars, callVars>>

\* OrchShutdown without the send: the function goes to join the worker
\* without telling it to shut down
OrchJoinsWithoutShutdown ==
    /\ opc = "shutdown"
    /\ opc' = "join"
    /\ UNCHANGED <<reqCh, sent>>
    /\ UNCHANGED <<respCh, tx_request, rx_request, tx_response, rx_response,
                   workerVars, cur, factors, system_disk_index, result,
                   received, responded, consumed, inits, nQuery>>
    /\ UNCHANGED <<probeVars, callVars>>

\* `if tx_request.send(WMIQueryRequest::Shutdown).is_err() {}`
OrchShutdown ==
    /\ opc = "shutdown"
    /\ IF rx_request
       THEN /\ reqCh' = Append(reqCh, "Shutdown")
            /\ sent' = Append(sent, "Shutdown")
       ELSE UNCHANGED <<reqCh, sent>>
    /\ opc' = "join"
    /\ UNCHANGED <<respCh, tx_request, rx_request, tx_response, rx_response,
                   workerVars, cur, factors, system_disk_index, result,
                   received, responded, consumed, inits, nQuery>>
    /\ UNCHANGED <<probeVars, callVars>>

\* `match worker_handle.join()` and the rest of the function
OrchJoin ==
    /\ opc = "join"
    /\ wpc = "terminated"
    /\ IF panicked
       THEN Return(Err(MachineIdError("WorkerThreadPanicked", "panic")))
       ELSE Return(Fingerprint(factors))
    /\ UNCHANGED <<reqCh, rx_request, tx_response, workerVars, cur, factors,
                   system_disk_index, histVars>>
    /\ UNCHANGED <<probeVars, callVars>>

get_machine_id_with_factors ==
    \/ OrchSend
    \/ OrchRecv
    \/ OrchShutdown
    \/ OrchJoin

(***************************************************************************)
(* The program: one call of get_machine_id_with_factors, after it has      *)
(* made the channels and spawned the worker.                               *)
(***************************************************************************)
\* The state after `channel()` twice, `thread::spawn` and `BTreeSet::new()`,
\* with the orchestrator at `o` and the worker at `w`
StartState(o, w) ==
    /\ reqCh = <<>>
    /\ respCh = <<>>
    /\ tx_request = TRUE
    /\ rx_request = TRUE
    /\ tx_response = TRUE
    /\ rx_response = TRUE
    /\ wpc = w
    /\ request = "GetBaseboard"
    /\ result_to_send = InitErrorResult
    /\ wdrops = <<>>
    /\ panicked = FALSE
    /\ opc = o
    /\ cur = "GetBaseboard"
    /\ factors = {}
    /\ system_disk_index = None
    /\ result = Pending
    /\ sent = <<>>
    /\ received = <<>>
    /\ responded = <<>>
    /\ consumed = <<>>
    /\ inits = <<>>
    /\ nQuery = 0

\* No feature probe is running
ProbeIdle ==
    /\ probe = "none"
    /\ ppc = "idle"
    /\ details = <<>>
    /\ status = Pending
    /\ calls = <<>>
    /\ host = <<>>

\* No single function is being called
CallIdle ==
    /\ fpc = "idle"
    /\ args = <<>>
    /\ ret = <<>>

Init == StartState("send", "init") /\ ProbeIdle /\ CallIdle

Next ==
    \/ get_machine_id_with_factors
    \/ wmi_worker_thread

Spec == Init /\ [][Next]_vars

\* The orchestrator can take a step: it is at a send, at a recv with a
\* response buffered or the response channel closed, or at a join of a worker
\* that has terminated
OrchCanStep ==
    \/ opc \in {"send", "shutdown"}
    \/ opc = "recv" /\ (respCh # <<>> \/ ~tx_response)
    \/ opc = "join" /\ wpc = "terminated"

\* A step of get_machine_id_with_factors, seen by the orchestrator's position
\* only (every step of the function changes it, no step of the worker does)
OrchMoves ==
    /\ OrchCanStep
    /\ opc' \in {"send", "recv", "shutdown", "join", "returned"}

\* Both threads are scheduled, and every call to the backend returns
FairSpec == Spec /\ WF_opc(OrchMoves) /\ WF_vars(wmi_worker_thread)

(***************************************************************************)
(* The worker on its own: wmi_worker_thread(rx_request, tx_response) with  *)
(* a caller that may use the other two channel ends in any way the         *)
(* channel's API allows (send any request, pipelined; take a response;     *)
(* drop either end at any time).                                           *)
(***************************************************************************)
\* The most requests the caller sends
MaxSends == 2

\* Sender::send on the request channel
CallerSend ==
    /\ opc = "caller"
    /\ tx_request
    /\ rx_request
    /\ Len(sent) < MaxSends
    /\ \E req \in WMIQueryRequest :
        /\ reqCh' = Append(reqCh, req)
        /\ sent' = Append(sent, req)
    /\ UNCHANGED <<respCh, tx_request, rx_request, tx_response, rx_response,
                   workerVars, orchVars, received, responded, consumed, inits, nQuery>>
    /\ UNCHANGED <<probeVars, callVars>>

\* Receiver::recv on the response channel
CallerRecv ==
    /\ opc = "caller"
    /\ rx_response
    /\ respCh # <<>>
    /\ consumed' = Append(consumed, Head(respCh))
    /\ respCh' = Tail(respCh)
    /\ UNCHANGED <<reqCh, tx_request, rx_request, tx_response, rx_response,
                   workerVars, orchVars, sent, received, responded, inits, nQuery>>
    /\ UNCHANGED <<probeVars, callVars>>

\* Dropping the response channel's receiver
CallerDropReceiver ==
    /\ opc = "caller"
    /\ rx_response
    /\ rx_response' = FALSE
    /\ respCh' = <<>>
    /\ UNCHANGED <<reqCh, tx_request, rx_request, tx_response,
                   workerVars, orchVars, histVars>>
    /\ UNCHANGED <<probeVars, callVars>>

\* Dropping the request channel's sender
CallerDropSender ==
    /\ opc = "caller"
    /\ tx_request
    /\ tx_request' = FALSE
    /\ UNCHANGED <<reqCh, respCh, rx_request, tx_response, rx_response,
                   workerVars, orchVars, histVars>>
    /\ UNCHANGED <<probeVars, callVars>>

Caller ==
    \/ CallerSend
    \/ CallerRecv
    \/ CallerDropReceiver
    \/ CallerDropSender

WorkerSpecInit == StartState("caller", "init") /\ ProbeIdle /\ CallIdle

WorkerSpecNext ==
    \/ Caller
    \/ wmi_worker_thread

WorkerSpec == WorkerSpecInit /\ [][WorkerSpecNext]_vars

\* The worker thread is scheduled, and its backend calls return
WorkerFairSpec == WorkerSpec /\ WF_vars(wmi_worker_thread)

(***************************************************************************)
(* The feature probes (lib.rs, windows_feature.rs).  `host` is the machine *)
(* a probe runs on: what each detection method finds there.  The           *)
(* diagnostic lines are rendered in English.                               *)
(***************************************************************************)
\* struct OptionalFeature; install_state 1 = Enabled, 2 = Disabled
OptionalFeature(name, install_state) == [name |-> name, install_state |-> install_state]

\* The most rows a Win32_OptionalFeature query returns
MaxFeatureRows == 2

\* The sequences of length at most n over S
SeqsUpTo(S, n) == UNION {[1..k -> S] : k \in 0..n}

\* What the thread of execute_wmi_query can end with: rows, a WMIError with
\* an HRESULT, another WMIError, or a panic
WmiOutcomes(names) ==
    {[kind |-> "Ok", rows |-> r] :
        r \in SeqsUpTo({OptionalFeature(n, st) : n \in names, st \in {1, 2}},
                       MaxFeatureRows)}
        \cup {[kind |-> k, rows |-> <<>>] : k \in {"HResultError", "OtherError", "Panic"}}

\* What a service status query can end with
ServiceOutcomes == {"Running", "Stopped", "Error"}

\* The machines is_hyperv_enabled is run on
HypervHosts ==
    [wsl_exe : {FALSE}, service : ServiceOutcomes, lxss_key : {FALSE},
     wmi : WmiOutcomes({"Microsoft-Hyper-V-All"})]

\* The machines is_wsl_enabled is run on
WslHosts ==
    [wsl_exe : BOOLEAN, service : ServiceOutcomes, lxss_key : BOOLEAN,
     wmi : WmiOutcomes({"Microsoft-Windows-Subsystem-Linux", "VirtualMachinePlatform"})]

\* Result<T, E>
ResOk(v) == [ok |-> TRUE, value |-> v]

ResErr(e) == [ok |-> FALSE, value |-> e]

\* execute_wmi_query: the thread's panic and its WMIError both become Err(String)
execute_wmi_query(outcome) ==
    CASE outcome.kind = "Panic" -> ResErr("WMI query in new thread failed")
      [] outcome.kind = "HResultError" -> ResErr("WMI query failed (hres)")
      [] outcome.kind = "OtherError" -> ResErr("WMI query failed")
      [] outcome.kind = "Ok" -> ResOk(outcome.rows)

\* hypervisor::check_hyperv_via_wmi
check_hyperv_via_wmi(outcome) ==
    LET results == execute_wmi_query(outcome)
    IN  IF ~results.ok THEN results
        ELSE IF Len(results.value) > 0
             THEN ResOk(results.value[1].install_state = 1)
             ELSE ResOk(FALSE)

\* check_wsl_via_wmi without the test of InstallState: a feature counts as
\* enabled as soon as it is listed
check_wsl_via_wmi_ignoring_state(outcome) ==
    LET results == execute_wmi_query(outcome)
    IN  IF ~results.ok THEN results
        ELSE ResOk(
               << \E k \in 1..Len(results.value) :
                     results.value[k].name = "Microsoft-Windows-Subsystem-Linux",
                  \E k \in 1..Len(results.value) :
                     results.value[k].name = "VirtualMachinePlatform" >>)

\* wsl::check_wsl_via_wmi: Ok((wsl_enabled, vmp_enabled))
check_wsl_via_wmi(outcome) ==
    LET results == execute_wmi_query(outcome)
    IN  IF ~results.ok THEN results
        ELSE ResOk(
               << \E k \in 1..Len(results.value) :
                     /\ results.value[k].install_state = 1
                     /\ results.value[k].name = "Microsoft-Windows-Subsystem-Linux",
                  \E k \in 1..Len(results.value) :
                     /\ results.value[k].install_state = 1
                     /\ results.value[k].name = "VirtualMachinePlatform" >>)

\* check_hyperv_via_service, check_wsl_via_service: Ok(state == Running)
check_via_service(outcome) ==
    IF outcome = "Error" THEN ResErr("service error") ELSE ResOk(outcome = "Running")

\* FeatureStatus
FeatureStatus(enabled, d) == [tag |-> "FeatureStatus", enabled |-> enabled, details |-> d]

\* `return FeatureStatus { enabled, details }`
ProbeReturn(enabled, d) ==
    /\ status' = FeatureStatus(enabled, d)
    /\ details' = d
    /\ ppc' = "returned"

\* The line a service query adds
ServiceLine(name, r) ==
    IF r.ok
    THEN "service '" \o name \o "': state is '"
            \o (IF r.value THEN "running" ELSE "stopped") \o "'."
    ELSE "service '" \o name \o "' query failed: " \o r.value

HypervSummaryLine == "no detection method could confirm that Hyper-V is fully enabled."

WslSummaryLine == "no detection method could confirm that WSL is fully enabled."

\* is_hyperv_enabled: `match check_hyperv_via_service()`
HypervService ==
    /\ probe = "is_hyperv_enabled"
    /\ ppc = "service"
    /\ calls' = Append(calls, "check_hyperv_via_service")
    /\ LET r == check_via_service(host.service)
           d == Append(details, ServiceLine("vmms", r))
       IN  IF r.ok /\ r.value
           THEN ProbeReturn(TRUE, d)
           ELSE /\ details' = d
                /\ ppc' = "wmi"
                /\ UNCHANGED status
    /\ UNCHANGED <<probe, host, machineIdVars, callVars>>

\* HypervWmi without the `return` of its positive arm
HypervWmiNoReturn ==
    /\ probe = "is_hyperv_enabled"
    /\ ppc = "wmi"
    /\ calls' = Append(calls, "check_hyperv_via_wmi")
    /\ LET r == check_hyperv_via_wmi(host.wmi)
       IN  details' = Append(details,
                   IF r.ok
                   THEN "WMI check: Hyper-V optional feature is "
                           \o (IF r.value THEN "enabled" ELSE "not enabled") \o "."
                   ELSE "WMI query failed: " \o r.value)
    /\ ppc' = "summary"
    /\ UNCHANGED <<status, probe, host, machineIdVars, callVars>>

\* is_hyperv_enabled: `match check_hyperv_via_wmi()`
HypervWmi ==
    /\ probe = "is_hyperv_enabled"
    /\ ppc = "wmi"
    /\ calls' = Append(calls, "check_hyperv_via_wmi")
    /\ LET r == check_hyperv_via_wmi(host.wmi)
           d == Append(details,
                   IF r.ok
                   THEN "WMI check: Hyper-V optional feature is "
                           \o (IF r.value THEN "enabled" ELSE "not enabled") \o "."
                   ELSE "WMI query failed: " \o r.value)
       IN  IF r.ok /\ r.value
           THEN ProbeReturn(TRUE, d)
           ELSE /\ details' = d
                /\ ppc' = "summary"
                /\ UNCHANGED status
    /\ UNCHANGED <<probe, host, machineIdVars, callVars>>

\* is_hyperv_enabled: the summary line and the negative return
HypervSummary ==
    /\ probe = "is_hyperv_enabled"
    /\ ppc = "summary"
    /\ ProbeReturn(FALSE, Append(details, HypervSummaryLine))
    /\ UNCHANGED <<probe, host, calls, machineIdVars, callVars>>

is_hyperv_enabled ==
    \/ HypervService
    \/ HypervWmi
    \/ HypervSummary

\* WslFileCheck without the `return` of the missing-file arm
WslFileCheckNoReturn ==
    /\ probe = "is_wsl_enabled"
    /\ ppc = "file"
    /\ details' = Append(details,
                     IF ~host.wsl_exe
                     THEN "file check: wsl.exe not found, WSL is not installed."
                     ELSE "file check: found wsl.exe.")
    /\ ppc' = "service"
    /\ UNCHANGED <<status, probe, host, calls, machineIdVars, callVars>>

\* is_wsl_enabled: `if !Path::new("C:\\Windows\\System32\\wsl.exe").exists()`
WslFileCheck ==
    /\ probe = "is_wsl_enabled"
    /\ ppc = "file"
    /\ IF ~host.wsl_exe
       THEN ProbeReturn(FALSE,
                Append(details, "file check: wsl.exe not found, WSL is not installed."))
       ELSE /\ details' = Append(details, "file check: found wsl.exe.")
            /\ ppc' = "service"
            /\ UNCHANGED status
    /\ UNCHANGED <<probe, host, calls, machineIdVars, callVars>>

\* WslService with a failed service query ending the chain with a negative
\* outcome
WslServiceErrorReturns ==
    /\ probe = "is_wsl_enabled"
    /\ ppc = "service"
    /\ calls' = Append(calls, "check_wsl_via_service")
    /\ LET r == check_via_service(host.service)
           d == Append(details, ServiceLine("LxssManager", r))
       IN  IF r.ok /\ r.value
           THEN ProbeReturn(TRUE, d)
           ELSE IF ~r.ok
                THEN ProbeReturn(FALSE, d)
                ELSE /\ details' = d
                     /\ ppc' = "reg"
                     /\ UNCHANGED status
    /\ UNCHANGED <<probe, host, machineIdVars, callVars>>

\* is_wsl_enabled: `match check_wsl_via_service()`
WslService ==
    /\ probe = "is_wsl_enabled"
    /\ ppc = "service"
    /\ calls' = Append(calls, "check_wsl_via_service")
    /\ LET r == check_via_service(host.service)
           d == Append(details, ServiceLine("LxssManager", r))
       IN  IF r.ok /\ r.value
           THEN ProbeReturn(TRUE, d)
           ELSE /\ details' = d
                /\ ppc' = "reg"
                /\ UNCHANGED status
    /\ UNCHANGED <<probe, host, machineIdVars, callVars>>

\* is_wsl_enabled: `match check_wsl_via_reg()`
WslReg ==
    /\ probe = "is_wsl_enabled"
    /\ ppc = "reg"
    /\ calls' = Append(calls, "check_wsl_via_reg")
    /\ IF host.lxss_key
       THEN ProbeReturn(TRUE, Append(details, "registry check: WSL is enabled."))
       ELSE /\ details' = Append(details, "registry check: WSL is not enabled.")
            /\ ppc' = "wmi"
            /\ UNCHANGED status
    /\ UNCHANGED <<probe, host, machineIdVars, callVars>>

\* The two lines the Ok arm of the WMI match adds
WslWmiLines(pair) ==
    << "WMI: 'Microsoft-Windows-Subsystem-Linux' is "
          \o (IF pair[1] THEN "enabled" ELSE "not enabled") \o ".",
       "WMI: 'VirtualMachinePlatform' is "
          \o (IF pair[2] THEN "enabled" ELSE "not enabled") \o "." >>

\* WslWmi with nothing recorded for a failed query
WslWmiErrorUnrecorded ==
    /\ probe = "is_wsl_enabled"
    /\ ppc = "wmi"
    /\ calls' = Append(calls, "check_wsl_via_wmi")
    /\ LET r == check_wsl_via_wmi(host.wmi)
           d == IF r.ok THEN details \o WslWmiLines(r.value) ELSE details
       IN  IF r.ok /\ r.value[1] /\ r.value[2]
           THEN ProbeReturn(TRUE, d)
           ELSE /\ details' = d
                /\ ppc' = "summary"
                /\ UNCHANGED status
    /\ UNCHANGED <<probe, host, machineIdVars, callVars>>

\* is_wsl_enabled: `match check_wsl_via_wmi()`
WslWmi ==
    /\ probe = "is_wsl_enabled"
    /\ ppc = "wmi"
    /\ calls' = Append(calls, "check_wsl_via_wmi")
    /\ LET r == check_wsl_via_wmi(host.wmi)
           d == IF r.ok
                THEN details \o WslWmiLines(r.value)
                ELSE Append(details, "WMI optional feature query failed: " \o r.value)
       IN  IF r.ok /\ r.value[1] /\ r.value[2]
           THEN ProbeReturn(TRUE, d)
           ELSE /\ details' = d
                /\ ppc' = "summary"
                /\ UNCHANGED status
    /\ UNCHANGED <<probe, host, machineIdVars, callVars>>

\* WslSummary without the summary line
WslSummaryNoLine ==
    /\ probe = "is_wsl_enabled"
    /\ ppc = "summary"
    /\ ProbeReturn(FALSE, details)
    /\ UNCHANGED <<probe, host, calls, machineIdVars, callVars>>

\* is_wsl_enabled: the summary line and the negative return
WslSummary ==
    /\ probe = "is_wsl_enabled"
    /\ ppc = "summary"
    /\ ProbeReturn(FALSE, Append(details, WslSummaryLine))
    /\ UNCHANGED <<probe, host, calls, machineIdVars, callVars>>

is_wsl_enabled ==
    \/ WslFileCheck
    \/ WslService
    \/ WslReg
    \/ WslWmi
    \/ WslSummary

\* A call of one of the two probes, on some machine
ProbeInit ==
    /\ StartState("idle", "idle")
    /\ CallIdle
    /\ details = <<>>
    /\ status = Pending
    /\ calls = <<>>
    /\ \/ probe = "is_hyperv_enabled" /\ ppc = "service" /\ host \in HypervHosts
       \/ probe = "is_wsl_enabled" /\ ppc = "file" /\ host \in WslHosts

ProbeNext ==
    \/ is_hyperv_enabled
    \/ is_wsl_enabled

ProbeSpec == ProbeInit /\ [][ProbeNext]_vars

(***************************************************************************)
(* sanitize_string on its own: one call, on a sample value with whitespace *)
(* around it.                                                              *)
(***************************************************************************)
\* The longest run of whitespace put before and after a sample value
MaxPad == 1

\* The runs of whitespace of length at most n
RECURSIVE Pads(_)
Pads(n) ==
    IF n = 0 THEN {""}
    ELSE Pads(n - 1) \cup {p \o w : p \in Pads(n - 1), w \in {" ", "\t"}}

\* Values a backend field may hold: placeholders in several spellings,
\* values that contain a placeholder, and ordinary values
SampleValues ==
    {"", "To Be Filled By O.E.M.", "to be filled by o.e.m.", "Default string",
     "DEFAULT STRING", "None", "none", "00000000", "O.E.M.", "o.e.m.",
     "Nonesuch", "ACME Default String Board", "000000000", "X O.E.M.",
     "Acme x", "S1"}

\* The arguments of the call
SanitizeInputs ==
    {None} \cup {Some(l \o v \o r) : l \in Pads(MaxPad), r \in Pads(MaxPad), v \in SampleValues}

\* A call of sanitize_string(args)
CallSanitizeString ==
    /\ fpc = "sanitize_string"
    /\ ret' = sanitize_string(args)
    /\ fpc' = "sanitized"
    /\ UNCHANGED <<args, machineIdVars, probeVars>>

SanitizeInit ==
    /\ StartState("idle", "idle")
    /\ ProbeIdle
    /\ fpc = "sanitize_string"
    /\ args \in SanitizeInputs
    /\ ret = <<>>

SanitizeSpec == SanitizeInit /\ [][CallSanitizeString]_vars

(***************************************************************************)
(* The factors get_machine_id_with_factors collects from the rows its five *)
(* queries return, when no query fails: its handlers applied in the order  *)
(* of the function's text.                                                 *)
(***************************************************************************)
\* The factor set after the five query_wmi! calls, given the rows returned
FactorsFor(rows) ==
    LET f1  == BaseboardHandler(ResultFor("GetBaseboard", rows.board), {})
        f2  == ProcessorHandler(ResultFor("GetProcessor", rows.cpu), f1)
        sdi == DiskPartitionsHandler(ResultFor("GetDiskPartitions", rows.parts), None)
        f3  == IF IsSome(sdi)
               THEN DiskDrivesHandler(ResultFor("GetDisksDerives", rows.drives),
                                      f2, Unwrap(sdi))
               ELSE f2
    IN  VideoControllersHandler(ResultFor("GetVideoControllers", rows.video), f3)

\* Rows of Win32_BaseBoard
BoardRows ==
    { <<>>,
      <<BaseBoard(Some("Acme"), Some(" B1 "), Some("None"))>>,
      <<BaseBoard(Some("a|bios_model:b"), None, None)>>,
      <<BaseBoard(Some("a"), Some("b"), None)>> }

\* Rows of Win32_Processor
ProcessorRows ==
    { <<>>, <<Processor(Some("Xeon"), Some("BFEB"))>> }

\* Rows of Win32_DiskPartition (boot partitions)
PartitionRows ==
    { <<>>, <<DiskPartition(1), DiskPartition(0)>> }

\* Rows of Win32_DiskDrive
DriveRows ==
    { <<>>,
      <<DiskDrive(Some("S0"), Some("M0"), 0), DiskDrive(Some(" s1 "), Some("M1"), 1)>>,
      <<DiskDrive(Some("S2"), None, 2), DiskDrive(Some("S0"), Some("M0"), 0)>> }

\* Rows of Win32_VideoController
VideoRows ==
    { <<>>,
      <<VideoController(Some("GTX"), Some("NVIDIA"), Some("PCI\\VEN_10DE"))>>,
      <<VideoController(Some("Basic"), Some("MS"), Some("ROOT\\BASIC")),
        VideoController(Some("GTX"), Some("NVIDIA"), Some("PCI\\VEN_10DE"))>>,
      <<VideoController(Some("Virtual"), Some("MS"), None),
        VideoController(None, Some("Default string"), Some("PCI\\VEN_8086"))>> }

\* What the five queries return, each as an Ok outcome of the backend
QueryRows ==
    {[board |-> [kind |-> "Ok", rows |-> b], cpu |-> [kind |-> "Ok", rows |-> c],
      parts |-> [kind |-> "Ok", rows |-> p], drives |-> [kind |-> "Ok", rows |-> d],
      video |-> [kind |-> "Ok", rows |-> v]] :
        b \in BoardRows, c \in ProcessorRows, p \in PartitionRows,
        d \in DriveRows, v \in VideoRows}

\* The handlers applied to the rows in args, and the tail of the function
CollectFactors ==
    /\ fpc = "factors"
    /\ ret' = [factors |-> FactorsFor(args), result |-> Fingerprint(FactorsFor(args))]
    /\ fpc' = "collected"
    /\ UNCHANGED <<args, machineIdVars, probeVars>>

FactorsInit ==
    /\ StartState("idle", "idle")
    /\ ProbeIdle
    /\ fpc = "factors"
    /\ args \in QueryRows
    /\ ret = <<>>

FactorsSpec == FactorsInit /\ [][CollectFactors]_vars

(***************************************************************************)
(* Properties                                                              *)
(***************************************************************************)
\* The requests of a sequence that ask for a query
Queries(s) == SelectSeq(s, LAMBDA r : r # "Shutdown")

IsInitError(res) == res.tag = "Error" /\ res.data.kind = "WMIInitialization"

\* The responses of a sequence that answer a request
Answers(s) == SelectSeq(s, LAMBDA res : ~IsInitError(res))

Returned == opc = "returned"

\* C1: in get_machine_id_with_factors the two threads run in lock-step: each
\* channel holds at most one message; at most one request is outstanding
\* (sent and its response not yet consumed); the worker never sends more
\* responses than it received requests, and never more than one for the request
\* it is at; and whenever the orchestrator is about to send (a request or
\* Shutdown) or to join, every request sent so far has been received,
\* answered by exactly one response, and that response consumed.
C1_LockStep ==
    /\ Len(reqCh) <= 1
    /\ Len(respCh) <= 1
    /\ Len(Queries(sent)) - Len(consumed) \in {0, 1}
    /\ Len(Queries(received)) - Len(Answers(responded)) \in {0, 1}
    /\ Len(consumed) <= Len(responded)
    /\ opc \in {"send", "shutdown", "join"} =>
          /\ reqCh = <<>> \/ opc = "join"
          /\ Len(Queries(received)) = Len(Queries(sent))
          /\ Len(Answers(responded)) = Len(Queries(sent))
          /\ Len(Answers(consumed)) = Len(Queries(sent))
          /\ consumed = Answers(responded)

\* C1, witness: four requests have been answered and consumed, one by one,
\* and the orchestrator is about to send the fifth
C1_Witness ==
    /\ opc = "send"
    /\ cur = "GetVideoControllers"
    /\ Len(consumed) = 4
    /\ Len(Queries(received)) = 4

\* C2: whenever get_machine_id_with_factors has returned, it has sent
\* Shutdown and the worker thread has terminated.
C2_ShutdownAndJoinBeforeReturn ==
    Returned =>
        /\ \E k \in 1..Len(sent) : sent[k] = "Shutdown"
        /\ wpc = "terminated"

\* C3: a return of get_machine_id_with_factors that follows a panic of the
\* worker thread returns the WorkerThreadPanicked error.
C3_PanicSurfacedAsWorkerThreadPanicked ==
    [][(~Returned /\ panicked /\ Returned')
          => (result'.tag = "Err" /\ result'.error.kind = "WorkerThreadPanicked")]_vars

\* C4: the k-th response the worker sends, and the k-th response its caller
\* takes, is the answer to the k-th query request: it has that request's
\* variant, or is Error.
C4_ResponsesInRequestOrder ==
    /\ \A k \in 1..Len(Answers(responded)) :
          /\ k <= Len(Queries(received))
          /\ Answers(responded)[k].tag \in {VariantOf(Queries(received)[k]), "Error"}
    /\ \A k \in 1..Len(Answers(consumed)) :
          /\ k <= Len(Queries(sent))
          /\ Answers(consumed)[k].tag \in {VariantOf(Queries(sent)[k]), "Error"}

\* C4, witness: two different requests were queued together, and the caller
\* has taken their two answers
C4_Witness ==
    /\ opc = "caller"
    /\ Len(consumed) = 2
    /\ Len(Queries(sent)) = 2
    /\ sent[1] # sent[2]
    /\ consumed[1].tag = VariantOf(sent[1])
    /\ consumed[2].tag = VariantOf(sent[2])

ShutdownReceived == \E k \in 1..Len(received) : received[k] = "Shutdown"

Terminated == wpc = "terminated"

\* C5: once the worker has received Shutdown it sends no response, executes
\* no backend query and reads no request any more, and it terminates.
WorkerQuiet == responded' = responded /\ nQuery' = nQuery /\ received' = received

C5_ShutdownEndsWorker ==
    /\ [][ShutdownReceived => WorkerQuiet]_vars
    /\ (ShutdownReceived ~> Terminated)

\* C5, witness: the worker has terminated on a Shutdown that was followed
\* by another request, which it never read
C5_Witness ==
    /\ opc = "caller"
    /\ Terminated
    /\ ~panicked
    /\ sent = <<"Shutdown", "GetProcessor">>
    /\ received = <<"Shutdown">>
    /\ responded = <<>>

\* C6: the worker initializes the backend once; if that fails it sends one
\* WMIInitialization error response, reads no request, executes no query,
\* and ends.
C6_InitOnceAndFailureEndsWorker ==
    /\ Len(inits) <= 1
    /\ wpc # "init" => Len(inits) = 1
    /\ inits = <<"Err">> =>
          /\ wpc \in {"init_failed", "exit", "terminated"}
          /\ received = <<>>
          /\ nQuery = 0
          /\ responded = IF wpc = "init_failed" THEN <<>> ELSE <<InitErrorResult>>

\* C6, witness: the worker has ended after a failed initialization, while a
\* request had been sent to it
C6_Witness ==
    /\ inits = <<"Err">>
    /\ Terminated
    /\ sent = <<"GetBaseboard">>
    /\ responded = <<InitErrorResult>>

\* The worker is at its send and the response channel's receiver is gone
SendFails == wpc = "send" /\ ~rx_response

\* C7: when the worker's send of a response fails, its next step leaves
\* the loop; having left the loop it reads no request, executes no query
\* and sends nothing; and it terminates.
LeavesLoop == wpc' = "exit" /\ wdrops' = LoopExitDrops

OutOfLoop == wpc \in {"exit", "terminated"}

C7_SendFailureEndsWorker ==
    /\ [][(SendFails /\ wpc' # wpc) => LeavesLoop]_vars
    /\ [][OutOfLoop => (OutOfLoop' /\ WorkerQuiet)]_vars
    /\ (SendFails ~> Terminated)

\* C7, witness: the worker has just left its loop on a failed send, with
\* another request waiting in the request channel
C7_Witness ==
    /\ opc = "caller"
    /\ wpc = "exit"
    /\ wdrops = LoopExitDrops
    /\ ~panicked
    /\ ~rx_response
    /\ request # "Shutdown"
    /\ Len(Queries(received)) = Len(Answers(responded)) + 1
    /\ reqCh # <<>>

\* What each detection method of the probe, in the probe's order, reports on
\* the host: TRUE when it reports the feature enabled
Reports ==
    IF probe = "is_hyperv_enabled"
    THEN << check_via_service(host.service).ok /\ check_via_service(host.service).value,
            check_hyperv_via_wmi(host.wmi).ok /\ check_hyperv_via_wmi(host.wmi).value >>
    ELSE << check_via_service(host.service).ok /\ check_via_service(host.service).value,
            host.lxss_key,
            /\ check_wsl_via_wmi(host.wmi).ok
            /\ check_wsl_via_wmi(host.wmi).value[1]
            /\ check_wsl_via_wmi(host.wmi).value[2] >>

SomeMethodReports == \E k \in 1..Len(Reports) : Reports[k]

\* The first method to report enabled, counted from 0
FirstToReport ==
    (CHOOSE k \in 1..Len(Reports) : Reports[k] /\ \A j \in 1..(k - 1) : ~Reports[j]) - 1

\* The probe has returned, and its methods were tried (for is_wsl_enabled:
\* wsl.exe exists)
ChainReturned ==
    /\ ppc = "returned"
    /\ probe = "is_wsl_enabled" => host.wsl_exe

\* C8, as claimed: if method i is the first to report enabled, the outcome
\* is enabled with exactly i+1 diagnostics, for both probes.
C8_Original ==
    (ChainReturned /\ SomeMethodReports) =>
        /\ status.enabled
        /\ Len(status.details) = FirstToReport + 1

\* C8, amended: if method i is the first to report enabled, the outcome is
\* enabled; is_hyperv_enabled has exactly i+1 diagnostics; is_wsl_enabled has
\* the file check's line first, then one line per service and registry
\* attempt and two lines for the WMI attempt: i+2 lines for i < 2, 5 for i = 2.
C8_EnabledAtFirstPositive ==
    (ChainReturned /\ SomeMethodReports) =>
        /\ status.enabled
        /\ Len(status.details) =
              IF probe = "is_hyperv_enabled" THEN FirstToReport + 1
              ELSE IF FirstToReport < 2 THEN FirstToReport + 2 ELSE 5

\* C8, witness: is_wsl_enabled has returned enabled on its third method,
\* the WMI query
C8_Witness ==
    /\ probe = "is_wsl_enabled"
    /\ ChainReturned
    /\ SomeMethodReports
    /\ FirstToReport = 2
    /\ status.enabled
    /\ Len(calls) = 3

SummaryLine == IF probe = "is_hyperv_enabled" THEN HypervSummaryLine ELSE WslSummaryLine

\* C9, as claimed: if no method reports enabled, the outcome is not enabled,
\* with one diagnostic per method and the summary line last.
C9_Original ==
    (ChainReturned /\ ~SomeMethodReports) =>
        /\ ~status.enabled
        /\ Len(status.details) = Len(Reports) + 1
        /\ status.details[Len(status.details)] = SummaryLine

\* C9, amended: if no method reports enabled, the outcome is not enabled and
\* the summary line is last; is_hyperv_enabled has one line per method before
\* it (3 lines); is_wsl_enabled has the file check's line, one line each for
\* the service and the registry, and for WMI one line when the query failed
\* and two when it returned (5 or 6 lines).
C9_AllNegative ==
    (ChainReturned /\ ~SomeMethodReports) =>
        /\ ~status.enabled
        /\ status.details[Len(status.details)] = SummaryLine
        /\ Len(status.details) =
              IF probe = "is_hyperv_enabled" THEN 3
              ELSE IF check_wsl_via_wmi(host.wmi).ok THEN 6 ELSE 5

\* C9, witness: is_wsl_enabled has returned not enabled after all three
\* methods, the WMI query reporting one of the two features enabled
C9_Witness ==
    /\ probe = "is_wsl_enabled"
    /\ ChainReturned
    /\ ~SomeMethodReports
    /\ ~status.enabled
    /\ check_wsl_via_wmi(host.wmi).ok
    /\ check_wsl_via_wmi(host.wmi).value[1]
    /\ Len(calls) = 3

\* C10: in is_wsl_enabled, when wsl.exe does not exist no detection method
\* is ever invoked, and the outcome is not enabled with exactly one
\* diagnostic.
C10_MissingPrerequisite ==
    (probe = "is_wsl_enabled" /\ ~host.wsl_exe) =>
        /\ calls = <<>>
        /\ ppc \in {"file", "returned"}
        /\ ppc = "returned" => (~status.enabled /\ Len(status.details) = 1)

\* C10, witness: is_wsl_enabled has returned on a machine without wsl.exe
\* where every downstream method would have reported enabled
C10_Witness ==
    /\ probe = "is_wsl_enabled"
    /\ ~host.wsl_exe
    /\ ppc = "returned"
    /\ host.service = "Running"
    /\ host.lxss_key

\* The detection methods of the probe, in the order of the probe's text
Methods ==
    IF probe = "is_hyperv_enabled"
    THEN <<"check_hyperv_via_service", "check_hyperv_via_wmi">>
    ELSE <<"check_wsl_via_service", "check_wsl_via_reg", "check_wsl_via_wmi">>

\* The probe's methods are being tried (for is_wsl_enabled: wsl.exe exists)
InChain == probe = "is_wsl_enabled" => host.wsl_exe

\* C11: the methods invoked so far are the first ones of the probe's order,
\* in that order; a method is invoked only when no earlier method reported
\* enabled; and by the return every method up to the first that reports
\* enabled was invoked and none after it, or all of them when none reports
\* enabled (a disabled or failing method does not end the chain).
C11_PriorityChain ==
    InChain =>
        /\ Len(calls) <= Len(Methods)
        /\ calls = SubSeq(Methods, 1, Len(calls))
        /\ \A k \in 1..Len(calls) : \A j \in 1..(k - 1) : ~Reports[j]
        /\ ppc = "returned" =>
              Len(calls) = IF SomeMethodReports THEN FirstToReport + 1 ELSE Len(Methods)

\* C11, witness: is_wsl_enabled has returned enabled on its WMI query after
\* a failed service query and a negative registry check
C11_Witness ==
    /\ probe = "is_wsl_enabled"
    /\ ppc = "returned"
    /\ host.wsl_exe
    /\ host.service = "Error"
    /\ ~host.lxss_key
    /\ status.enabled
    /\ calls = Methods

\* The diagnostic line is one a given method adds
LineFrom(method, line) ==
    CASE method \in {"check_hyperv_via_service", "check_wsl_via_service"} ->
            starts_with(line, "service '")
      [] method = "check_wsl_via_reg" -> starts_with(line, "registry check:")
      [] method \in {"check_hyperv_via_wmi", "check_wsl_via_wmi"} ->
            starts_with(line, "WMI")

\* C12: a probe that has not returned can always take its next step, whatever
\* its methods yield (a panic of the WMI query's thread included); and what
\* it returns is a FeatureStatus with a boolean and a non-empty diagnostics
\* list that holds a line from every method that was invoked.
C12_DiagnosticsForEveryMethod ==
    /\ (probe # "none" /\ ppc # "returned") => ENABLED ProbeNext
    /\ ppc = "returned" =>
          /\ status.tag = "FeatureStatus"
          /\ status.enabled \in BOOLEAN
          /\ Len(status.details) >= 1
          /\ \A k \in 1..Len(calls) :
                \E j \in 1..Len(status.details) : LineFrom(calls[k], status.details[j])

\* C12, witness: a probe has returned after its service query failed and
\* the thread of its WMI query panicked
C12_Witness ==
    /\ ppc = "returned"
    /\ InChain
    /\ host.service = "Error"
    /\ host.wmi.kind = "Panic"
    /\ calls = Methods
    /\ ~status.enabled

\* The orchestrator sent Shutdown: every query it made was answered without
\* an error
AllQueriesAnswered == \E k \in 1..Len(sent) : sent[k] = "Shutdown"

\* C13: when get_machine_id_with_factors has returned after all its queries
\* succeeded (and the worker ended without a panic) with an empty factor set,
\* it returned NoFactorsFound; and a successful result never carries an empty
\* factor set or the digest of the empty string.
C13_NoFactorsFound ==
    /\ (Returned /\ AllQueriesAnswered /\ ~panicked /\ factors = {}) =>
          result = Err(MachineIdError("NoFactorsFound", ""))
    /\ (Returned /\ result.tag = "Ok") =>
          /\ result.factors # {}
          /\ result.factors = factors
          /\ result.id # to_hex_sha256("")

\* C13, witness: NoFactorsFound was returned after four successful queries,
\* the first of which returned a board whose fields are all sanitized away
C13_Witness ==
    /\ Returned
    /\ result.tag = "Err"
    /\ result.error.kind = "NoFactorsFound"
    /\ Len(consumed) = 4
    /\ consumed[1].tag = "Baseboard"
    /\ IsSome(consumed[1].data)

\* What the backend may answer to a query: rows or an error
BackendAnswers(req) == {o \in QueryOutcomes(req) : o.kind # "Panic"}

\* The backends that answer (none of their calls panics): what initialization
\* yields and what each query yields
Backends ==
    {[init |-> i, board |-> b, cpu |-> c, parts |-> p, drives |-> d, video |-> v] :
        i \in {"Ok", "Err"},
        b \in BackendAnswers("GetBaseboard"),
        c \in BackendAnswers("GetProcessor"),
        p \in BackendAnswers("GetDiskPartitions"),
        d \in BackendAnswers("GetDisksDerives"),
        v \in BackendAnswers("GetVideoControllers")}

OutcomeOf(E, req) ==
    CASE req = "GetBaseboard" -> E.board
      [] req = "GetProcessor" -> E.cpu
      [] req = "GetDiskPartitions" -> E.parts
      [] req = "GetDisksDerives" -> E.drives
      [] req = "GetVideoControllers" -> E.video

\* What get_machine_id_with_factors returns on backend E when the two threads
\* take turns: the orchestrator sends a request, the worker answers it, the
\* orchestrator handles the answer
RECURSIVE RunFrom(_, _, _, _)
RunFrom(E, req, fs, sdi) ==
    IF req = "Shutdown" THEN Fingerprint(fs)
    ELSE LET res == ResultFor(req, OutcomeOf(E, req))
         IN  IF res.tag = "Error" THEN Err(res.data)
             ELSE RunFrom(E, NextRequest(req, HandledDiskIndex(req, res, sdi)),
                          HandledFactors(req, res, fs, sdi),
                          HandledDiskIndex(req, res, sdi))

RunInTurn(E) ==
    IF E.init = "Err" THEN Err(InitErrorResult.data)
    ELSE RunFrom(E, "GetBaseboard", {}, None)

\* The calls the worker has made to the backend so far were answered as
\* backend E answers them
AnsweredBy(E) ==
    /\ inits # <<>> => inits[1] = E.init
    /\ \A k \in 1..Len(Answers(responded)) :
          LET req == Queries(received)[k]
              exp == ResultFor(req, OutcomeOf(E, req))
              got == Answers(responded)[k]
          IN  got.tag = exp.tag /\ got.data = exp.data

\* C14: for a fixed backend (the outcome of initialization and the answer to
\* each query), every run of get_machine_id_with_factors returns the same
\* result, whatever the interleaving of the two threads: a run that has
\* returned on a backend returns what the run in turns returns on it.
C14_SameResultForSameBackend ==
    (Returned /\ ~panicked) =>
        \A E \in Backends : AnsweredBy(E) => result = RunInTurn(E)

\* The same for the runs in which initialization succeeded: these do return
\* what the run in turns returns
SameResultOnceInitialized ==
    (Returned /\ ~panicked /\ inits = <<"Ok">>) =>
        \A E \in Backends : AnsweredBy(E) => result = RunInTurn(E)

\* FactorsFor is what the two threads compute together: a successful result
\* of get_machine_id_with_factors is the fingerprint of the factors collected
\* from the rows the backend returned
SuccessfulResultIsCollected ==
    (Returned /\ result.tag = "Ok") =>
        \A E \in Backends : AnsweredBy(E) => result = Fingerprint(FactorsFor(E))

\* char::to_uppercase and str::to_uppercase, on the characters of the model
UpperChar(c) ==
    IF \E i \in 1..Len(LowerChars) : CharAt(LowerChars, i) = c
    THEN CharAt(UpperChars, CHOOSE i \in 1..Len(LowerChars) : CharAt(LowerChars, i) = c)
    ELSE c

RECURSIVE to_uppercase(_)
to_uppercase(s) ==
    IF Len(s) = 0 THEN ""
    ELSE UpperChar(CharAt(s, 1)) \o to_uppercase(SubSeq(s, 2, Len(s)))

\* A field's value spelled otherwise: in another letter case, or with
\* whitespace before or after it
Respellings(v) ==
    IF ~IsSome(v) THEN {}
    ELSE {Some(to_lowercase(Unwrap(v))), Some(to_uppercase(Unwrap(v))),
          Some(" " \o Unwrap(v)), Some(Unwrap(v) \o "\t")} \ {v}

\* The rows with one of the named fields of one record spelled otherwise
RespelledRows(rs, fields) ==
    UNION {{[rs EXCEPT ![k] = [rs[k] EXCEPT ![f] = w]] : w \in Respellings(rs[k][f])} :
              k \in 1..Len(rs), f \in fields}

OkRows(rs) == [kind |-> "Ok", rows |-> rs]

\* The query results with one field of one record spelled otherwise, the
\* fields of a video controller being those of vfields
Respelled(a, vfields) ==
    {[a EXCEPT !.board = OkRows(r)] :
         r \in RespelledRows(a.board.rows, {"manufacturer", "product", "serial_number"})}
    \cup {[a EXCEPT !.cpu = OkRows(r)] :
         r \in RespelledRows(a.cpu.rows, {"name", "processor_id"})}
    \cup {[a EXCEPT !.drives = OkRows(r)] :
         r \in RespelledRows(a.drives.rows, {"serial_number", "model"})}
    \cup {[a EXCEPT !.video = OkRows(r)] :
         r \in RespelledRows(a.video.rows, vfields)}

Collected == fpc = "collected"

\* C15: the factor set and the result collected from the rows are the same
\* as those collected from the rows with the letter case, or the whitespace
\* around it, of any one field of any one record changed.
C15_CaseAndWhitespaceIgnored ==
    Collected =>
        \A b \in Respelled(args, {"name", "adapter_compatibility", "pnp_device_id"}) :
            /\ FactorsFor(b) = ret.factors
            /\ Fingerprint(FactorsFor(b)) = ret.result

\* The same for every field but a video controller's PNPDeviceID: for these
\* the letter case and the whitespace around the value make no difference
RespellingIgnoredButPnpDeviceId ==
    Collected =>
        \A b \in Respelled(args, {"name", "adapter_compatibility"}) :
            /\ FactorsFor(b) = ret.factors
            /\ Fingerprint(FactorsFor(b)) = ret.result

\* Values to put in a field in place of its value
OtherValues == {"zz", "a", "a|bios_model:b", "x;y", "b|"}

\* The rows with one of the named fields of one record, whose value is not
\* sanitized away, given another value that is not sanitized away either and
\* is different once sanitized
ChangedRows(rs, fields) ==
    UNION {{[rs EXCEPT ![k] = [rs[k] EXCEPT ![f] = Some(w)]] :
               w \in {x \in OtherValues :
                        /\ IsSome(sanitize_string(rs[k][f]))
                        /\ sanitize_string(Some(x)) # sanitize_string(rs[k][f])}} :
              k \in 1..Len(rs), f \in fields}

\* The query results with the value of one field of one record changed
OneFieldChanged(a) ==
    {[a EXCEPT !.board = OkRows(r)] :
         r \in ChangedRows(a.board.rows, {"manufacturer", "product", "serial_number"})}
    \cup {[a EXCEPT !.cpu = OkRows(r)] :
         r \in ChangedRows(a.cpu.rows, {"name", "processor_id"})}
    \cup {[a EXCEPT !.drives = OkRows(r)] :
         r \in ChangedRows(a.drives.rows, {"serial_number", "model"})}
    \cup {[a EXCEPT !.video = OkRows(r)] :
         r \in ChangedRows(a.video.rows, {"name", "adapter_compatibility", "pnp_device_id"})}

\* Some factor of the set contains the delimiter of the combined string
HasBar(fs) == \E f \in fs : contains(f, "|")

\* The factor sets that can be collected from the sample rows, each with the
\* string that is hashed for it
Collectable ==
    {[factors |-> FactorsFor(b), combined |-> combined_string(FactorsFor(b))] :
        b \in QueryRows}

\* C16, as claimed: the string that is hashed for the rows differs from the
\* one hashed for any rows that give another factor set, whether these are
\* the same rows with one field changed or any other rows, and whatever
\* characters the values contain.
C16_Original ==
    Collected =>
        LET combined == combined_string(ret.factors)
        IN  /\ \A b \in OneFieldChanged(args) :
                  FactorsFor(b) # ret.factors =>
                      combined_string(FactorsFor(b)) # combined
            /\ \A c \in Collectable :
                  c.factors # ret.factors => c.combined # combined

\* C16, amended: the string that is hashed for the rows differs from the one
\* hashed for the same rows with one field changed, when that changes the
\* factor set, whatever characters the values contain; and it differs from
\* the one hashed for any other rows that give another factor set, when no
\* factor of either set contains "|".
C16_DistinctCombinedStrings ==
    Collected =>
        LET combined == combined_string(ret.factors)
        IN  /\ \A b \in OneFieldChanged(args) :
                  FactorsFor(b) # ret.factors =>
                      combined_string(FactorsFor(b)) # combined
            /\ ~HasBar(ret.factors) =>
                  \A c \in Collectable :
                      (c.factors # ret.factors /\ ~HasBar(c.factors)) =>
                          c.combined # combined

\* C16, witness: factors were collected from a board "a", "b"; putting
\* "a|bios_model:b" in its first field changes the factor set and the
\* string, while other rows (that value in the first field and no second
\* field) give another factor set with the same string
C16_Witness ==
    /\ Collected
    /\ args.board.rows = <<BaseBoard(Some("a"), Some("b"), None)>>
    /\ \E b \in OneFieldChanged(args) :
          /\ b.board.rows[1].manufacturer = Some("a|bios_model:b")
          /\ FactorsFor(b) # ret.factors
          /\ combined_string(FactorsFor(b)) # combined_string(ret.factors)
    /\ \E c \in Collectable :
          /\ c.factors # ret.factors
          /\ c.combined = combined_string(ret.factors)

\* The factors of a set that come from a disk drive
DiskFactors(fs) == {f \in fs : starts_with(f, "disk_")}

\* The positions, in the drive rows, of the drives whose index is the disk
\* index of the first partition row
SystemDisks(a) ==
    IF a.parts.rows = <<>> THEN {}
    ELSE {k \in 1..Len(a.drives.rows) :
            a.drives.rows[k].index = a.parts.rows[1].disk_index}

\* The drive the factors are taken from: the first of these
SystemDisk(a) == CHOOSE k \in SystemDisks(a) : \A j \in SystemDisks(a) : k <= j

RemoveAt(rs, k) == SubSeq(rs, 1, k - 1) \o SubSeq(rs, k + 1, Len(rs))

\* The query results with one drive other than the system disk removed, or
\* given another serial number or model
OtherDriveChanged(a) ==
    LET others == {k \in 1..Len(a.drives.rows) :
                     SystemDisks(a) = {} \/ k # SystemDisk(a)}
    IN  {[a EXCEPT !.drives = OkRows(RemoveAt(a.drives.rows, k))] : k \in others}
        \cup {[a EXCEPT !.drives =
                   OkRows([a.drives.rows EXCEPT ![k] = [a.drives.rows[k] EXCEPT ![f] = Some(w)]])] :
                 k \in others, f \in {"serial_number", "model"}, w \in OtherValues}

\* C17: the disk factors collected are the tagged, sanitized model and
\* serial number of the first drive whose index is the disk index of the
\* first partition row, and there is none when there is no partition row or
\* no such drive; removing any other drive from the rows, or changing its
\* serial number or model, changes neither the factor set nor the result.
C17_SystemDiskOnly ==
    Collected =>
        /\ DiskFactors(ret.factors) =
              IF SystemDisks(args) = {} THEN {}
              ELSE LET disk == args.drives.rows[SystemDisk(args)]
                   IN  Tagged("disk_model:", disk.model)
                          \cup Tagged("disk_serial:", disk.serial_number)
        /\ \A b \in OtherDriveChanged(args) :
              /\ FactorsFor(b) = ret.factors
              /\ Fingerprint(FactorsFor(b)) = ret.result

\* C17, witness: the first partition row names disk 1, the drive rows list
\* disk 0 before disk 1, and the disk factors collected are those of disk 1
C17_Witness ==
    /\ Collected
    /\ args.parts.rows = <<DiskPartition(1), DiskPartition(0)>>
    /\ Len(args.drives.rows) = 2
    /\ args.drives.rows[1].index = 0
    /\ args.drives.rows[2].index = 1
    /\ DiskFactors(ret.factors) = {"disk_model:m1", "disk_serial:s1"}

\* The factors of a set that come from a video controller
VideoFactors(fs) == {f \in fs : starts_with(f, "gpu")}

\* The positions, in the video controller rows, of the PCI devices: those
\* with a PNPDeviceID that begins with PCI\VEN_
PciDevices(a) ==
    {k \in 1..Len(a.video.rows) :
        /\ IsSome(a.video.rows[k].pnp_device_id)
        /\ starts_with(Unwrap(a.video.rows[k].pnp_device_id), "PCI\\VEN_")}

\* The tag prefix of the controller at position k of the rows
GpuTag(k) == "gpu" \o ToString(k - 1) \o "_"

\* C18: every video factor collected comes from a PCI device of the rows
\* (a controller whose PNPDeviceID is absent or does not begin with PCI\VEN_
\* gives none); and a PCI device whose manufacturer, model and device id are
\* all kept by sanitize_string gives exactly one factor: the three tagged
\* values in ascending order, joined with ";".
C18_OneCompositePerPciDevice ==
    Collected =>
        /\ \A f \in VideoFactors(ret.factors) :
              \E k \in PciDevices(args) : starts_with(f, GpuTag(k))
        /\ \A k \in PciDevices(args) :
              LET vc == args.video.rows[k]
                  m == sanitize_string(vc.adapter_compatibility)
                  n == sanitize_string(vc.name)
                  p == sanitize_string(vc.pnp_device_id)
              IN  (IsSome(m) /\ IsSome(n) /\ IsSome(p)) =>
                      {f \in ret.factors : starts_with(f, GpuTag(k))} =
                          { GpuTag(k) \o "manufacturer:" \o Unwrap(m) \o ";"
                              \o GpuTag(k) \o "model:" \o Unwrap(n) \o ";"
                              \o GpuTag(k) \o "pnp_id:" \o Unwrap(p) }

\* C18, witness: the rows list a controller on the ROOT bus and then a PCI
\* device with all three fields, and the one video factor collected is the
\* composite of the PCI device
C18_Witness ==
    /\ Collected
    /\ Len(args.video.rows) = 2
    /\ args.video.rows[1].pnp_device_id = Some("ROOT\\BASIC")
    /\ PciDevices(args) = {2}
    /\ VideoFactors(ret.factors) =
          {"gpu1_manufacturer:nvidia;gpu1_model:gtx;gpu1_pnp_id:pci\\ven_10de"}

\* The blacklisted placeholders
Placeholders ==
    {"to be filled by o.e.m.", "default string", "none", "00000000", "o.e.m."}

\* sanitize_string was called on a value, and this is the value with the
\* whitespace around it removed, in lower case
Sanitized == fpc = "sanitized"

Trimmed == to_lowercase(trim(Unwrap(args)))

\* C19: sanitize_string returns None for None, for a value that is empty
\* once trimmed, and for a value that is one of the placeholders once trimmed
\* and put in lower case.
C19_PlaceholdersSanitizedAway ==
    (Sanitized /\ (args = None \/ Trimmed = "" \/ Trimmed \in Placeholders)) =>
        ret = None

\* C19, witness: sanitize_string has returned None for a placeholder in
\* mixed case with a tab before it and a space after it
C19_Witness ==
    /\ Sanitized
    /\ args = Some("\tTo Be Filled By O.E.M. ")
    /\ ret = None

\* C20: for a value that is not empty once trimmed and is then, in lower
\* case, none of the placeholders, sanitize_string returns that trimmed
\* lower-case value.
C20_OtherValuesKept ==
    (Sanitized /\ args # None /\ Trimmed # "" /\ Trimmed \notin Placeholders) =>
        ret = Some(Trimmed)


\* The errors of a structural failure: a channel send or receive failed, the
\* worker thread panicked, or no factor was found
StructuralErrors == {"ChannelSend", "ChannelRecv", "WorkerThreadPanicked", "NoFactorsFound"}

\* C21: when backend initialization succeeded, get_machine_id_with_factors
\* returns an error only for a structural failure (a channel send or receive
\* failure, a panic of the worker, no factors): the QueryError response of
\* one failed query does not make it return.
C21_OnlyStructuralFailuresAbort ==
    (Returned /\ inits = <<"Ok">> /\ result.tag = "Err") =>
        result.error.kind \in StructuralErrors


\* Every one of the fields is absent or sanitized away
AllSanitizedAway(fields) == \A k \in 1..Len(fields) : ~IsSome(sanitize_string(fields[k]))

\* A successful response with nothing to make a factor of: no record, or
\* only records whose fields are absent or sanitized away
NoValue(res) ==
    CASE res.tag = "Baseboard" ->
            \/ ~IsSome(res.data)
            \/ AllSanitizedAway(<<Unwrap(res.data).manufacturer, Unwrap(res.data).product,
                                  Unwrap(res.data).serial_number>>)
      [] res.tag = "Processor" ->
            \/ ~IsSome(res.data)
            \/ AllSanitizedAway(<<Unwrap(res.data).name, Unwrap(res.data).processor_id>>)
      [] res.tag = "DiskPartitions" -> res.data = <<>>
      [] res.tag = "DiskDrives" ->
            \A k \in 1..Len(res.data) :
                AllSanitizedAway(<<res.data[k].model, res.data[k].serial_number>>)
      [] res.tag = "VideoControllers" ->
            \A k \in 1..Len(res.data) :
                AllSanitizedAway(<<res.data[k].adapter_compatibility, res.data[k].name,
                                   res.data[k].pnp_device_id>>)
      [] OTHER -> FALSE

\* The orchestrator takes a response that is not an Error
TakesAnswer == opc = "recv" /\ consumed' # consumed /\ Head(respCh).tag # "Error"

\* Taking it does not make the function return, and leaves the factors as
\* they are when the response has nothing to make a factor of
AnswerHandled ==
    TakesAnswer =>
        /\ ~Returned'
        /\ NoValue(Head(respCh)) => factors' = factors

\* C22: a response that is not an Error never makes
\* get_machine_id_with_factors return, and one with no record, or with
\* records whose fields are all absent or sanitized away, leaves the factor
\* set unchanged; and when all queries were answered, the worker did not
\* panic and some factor was collected, the function returns Ok.
C22_EmptyAnswersAreNoError ==
    /\ [][AnswerHandled]_vars
    /\ []((Returned /\ AllQueriesAnswered /\ ~panicked /\ factors # {}) => result.tag = "Ok")

\* C22, witness: the function returned Ok after a board record whose fields
\* are all sanitized away and an empty list of boot partitions
C22_Witness ==
    /\ Returned
    /\ result.tag = "Ok"
    /\ Len(consumed) = 4
    /\ IsSome(consumed[1].data)
    /\ NoValue(consumed[1])
    /\ consumed[3] = WMIQueryResult("DiskPartitions", <<>>)


\* BTreeSet::insert on the set's elements in iteration order: nothing for an
\* element that is there, otherwise the element goes before the first greater
\* one
BTreeSetInsert(v, x) ==
    IF \E k \in 1..Len(v) : v[k] = x THEN v
    ELSE LET below == SelectSeq(v, LAMBDA y : StrLess(y, x))
             above == SelectSeq(v, LAMBDA y : StrLess(x, y))
         IN  below \o <<x>> \o above

\* The elements, in iteration order, of the BTreeSet the strings of xs were
\* inserted into one after the other
RECURSIVE BTreeSetFrom(_)
BTreeSetFrom(xs) ==
    IF Len(xs) = 0 THEN <<>>
    ELSE BTreeSetInsert(BTreeSetFrom(SubSeq(xs, 1, Len(xs) - 1)), xs[Len(xs)])

Reversed(v) == [k \in 1..Len(v) |-> v[Len(v) + 1 - k]]

\* Orders in which the strings of v may be inserted: as they are, backwards,
\* starting from any of them, and each of them twice
InsertionOrders(v) ==
    {v, Reversed(v), v \o v, Reversed(v) \o v}
        \cup {SubSeq(v, k, Len(v)) \o SubSeq(v, 1, k - 1) : k \in 1..Len(v)}

\* No string of v is repeated and each is less than the next, in byte order
StrictlyAscending(v) == \A k \in 1..(Len(v) - 1) : StrLess(v[k], v[k + 1])

\* C23: the factors of a successful result, in the order the set is iterated
\* in, are strictly ascending in byte order (so without duplicates) and are
\* exactly the factors collected; the digest is that of these factors joined
\* in that order with "|"; and inserting the factors in another order, or
\* some of them twice, gives the same sequence.
C23_SortedUniqueFactors ==
    (Collected /\ ret.result.tag = "Ok") =>
        LET v == SortedSeq(ret.result.factors)
        IN  /\ StrictlyAscending(v)
            /\ {v[k] : k \in 1..Len(v)} = ret.factors
            /\ Len(v) = Cardinality(ret.factors)
            /\ ret.result.id = to_hex_sha256(join(v, "|"))
            /\ \A order \in InsertionOrders(v) : BTreeSetFrom(order) = v

\* C23, witness: a successful result whose factors include the processor's
\* name and id, which the function inserts in that order and the set keeps
\* in the other, among at least four factors
C23_Witness ==
    /\ Collected
    /\ ret.result.tag = "Ok"
    /\ Cardinality(ret.factors) >= 4
    /\ \E i, j \in 1..Cardinality(ret.factors) :
          /\ i < j
          /\ SortedSeq(ret.result.factors)[i] = "cpu_id:bfeb"
          /\ SortedSeq(ret.result.factors)[j] = "cpu_name:xeon"


\* C24: when backend initialization failed in the worker,
\* get_machine_id_with_factors returns the WMIInitialization error, whatever
\* the interleaving of the two threads.
C24_InitFailureReturnsWMIInitialization ==
    (Returned /\ inits = <<"Err">>) => result = Err(InitErrorResult.data)


\* The orchestrator waits: for a response, or for the worker to terminate
OrchBlocked ==
    \/ opc = "recv" /\ respCh = <<>> /\ tx_response
    \/ opc = "join" /\ wpc # "terminated"

\* The worker cannot take a step: it waits for a request on a channel that is
\* empty and open, or it has terminated
WorkerStuck ==
    \/ wpc = "recv" /\ reqCh = <<>> /\ tx_request
    \/ wpc = "terminated"

\* C25: the orchestrator is never blocked on recv or on join while the
\* worker waits for a request or has terminated; and, both threads being
\* scheduled and the backend's calls returning,
\* get_machine_id_with_factors returns.
C25_AlwaysReturns ==
    /\ [](~(OrchBlocked /\ WorkerStuck))
    /\ <>Returned

\* C25, witness: the function returned ChannelRecv after the worker panicked
\* in a query, having waited on recv until the worker dropped its sender
C25_Witness ==
    /\ Returned
    /\ panicked
    /\ nQuery > 0
    /\ result = Err(MachineIdError("ChannelRecv", "receiving on a closed channel"))


\* C26: after get_machine_id_with_factors has returned, by whatever path,
\* the worker thread terminates (it being scheduled and its backend calls
\* returning); and once the function has returned the request channel is
\* closed on the orchestrator's side.
C26_WorkerEndsAfterReturn ==
    /\ [](Returned => ~tx_request)
    /\ (Returned ~> Terminated)

\* C26, witness: the function returned a QueryError without having sent
\* Shutdown, while the worker was still waiting for its next request
C26_Witness ==
    /\ Returned
    /\ result.tag = "Err"
    /\ result.error.kind = "QueryError"
    /\ ~AllQueriesAnswered
    /\ wpc = "recv"


\* The requests of a run without errors, given whether the partition query
\* returned a partition
RequestOrder(hasPartition) ==
    <<"GetBaseboard", "GetProcessor", "GetDiskPartitions">>
        \o (IF hasPartition THEN <<"GetDisksDerives">> ELSE <<>>)
        \o <<"GetVideoControllers", "Shutdown">>

IsPrefix(s, t) == Len(s) <= Len(t) /\ s = SubSeq(t, 1, Len(s))

\* The response to GetDiskPartitions was taken
PartitionsAnswered == Len(consumed) >= 3 /\ consumed[3].tag = "DiskPartitions"

\* C27: the requests the orchestrator has sent are, at any time, the
\* beginning of GetBaseboard, GetProcessor, GetDiskPartitions, GetDisksDerives
\* if and only if the partition response was not empty, GetVideoControllers,
\* Shutdown (so each kind is sent at most once and nothing after Shutdown);
\* and a run without errors, when it returns, has sent all of them.
C27_RequestOrder ==
    /\ IF PartitionsAnswered
       THEN IsPrefix(sent, RequestOrder(consumed[3].data # <<>>))
       ELSE IsPrefix(sent, <<"GetBaseboard", "GetProcessor", "GetDiskPartitions">>)
    /\ (Returned /\ result.tag = "Ok") =>
          sent = RequestOrder(consumed[3].data # <<>>)

\* C27, witness: a run without errors returned after an empty partition
\* response, having sent five requests, GetDisksDerives not among them
C27_Witness ==
    /\ Returned
    /\ result.tag = "Ok"
    /\ consumed[3] = WMIQueryResult("DiskPartitions", <<>>)
    /\ sent = <<"GetBaseboard", "GetProcessor", "GetDiskPartitions",
                "GetVideoControllers", "Shutdown">>


\* The query results with one video controller that is not a PCI device
\* removed from the list
NonPciRemoved(a) ==
    {[a EXCEPT !.video = OkRows(RemoveAt(a.video.rows, k))] :
        k \in (1..Len(a.video.rows)) \ PciDevices(a)}

\* C28: the factor set and the result collected from the rows are those
\* collected from the same rows without one of the video controllers that
\* are not PCI devices.
C28_NonPciControllersIgnored ==
    Collected =>
        \A b \in NonPciRemoved(args) :
            /\ FactorsFor(b) = ret.factors
            /\ Fingerprint(FactorsFor(b)) = ret.result


ProbeReturned == ppc = "returned"

\* The WMI query of the host answers, and lists no feature twice (Name is
\* the key of Win32_OptionalFeature)
ListedOnce ==
    host.wmi.kind = "Ok" =>
        \A j, k \in 1..Len(host.wmi.rows) :
            host.wmi.rows[j].name = host.wmi.rows[k].name => j = k

\* The WMI query of the host reports the feature enabled: it answers with a
\* row of that name whose InstallState is 1
FeatureEnabled(name) ==
    /\ host.wmi.kind = "Ok"
    /\ \E k \in 1..Len(host.wmi.rows) :
          host.wmi.rows[k] = OptionalFeature(name, 1)

\* C29: is_hyperv_enabled returns enabled exactly when the vmms service is
\* Running or the WMI query reports Microsoft-Hyper-V-All enabled;
\* is_wsl_enabled returns enabled exactly when wsl.exe exists and the
\* LxssManager service is Running, or the lxss registry key exists, or the WMI
\* query reports both Microsoft-Windows-Subsystem-Linux and
\* VirtualMachinePlatform enabled.
C29_EnabledExactlyWhenAffirmed ==
    (ProbeReturned /\ ListedOnce) =>
        (status.enabled <=>
            IF probe = "is_hyperv_enabled"
            THEN \/ host.service = "Running"
                 \/ FeatureEnabled("Microsoft-Hyper-V-All")
            ELSE /\ host.wsl_exe
                 /\ \/ host.service = "Running"
                    \/ host.lxss_key
                    \/ /\ FeatureEnabled("Microsoft-Windows-Subsystem-Linux")
                       /\ FeatureEnabled("VirtualMachinePlatform"))

\* C29, witness: is_wsl_enabled has returned not enabled on a machine with
\* wsl.exe, a failing service query and no registry key, where the WMI query
\* reports VirtualMachinePlatform enabled and the Linux subsystem disabled
C29_Witness ==
    /\ probe = "is_wsl_enabled"
    /\ ProbeReturned
    /\ ~status.enabled
    /\ host.wsl_exe
    /\ host.service = "Error"
    /\ ~host.lxss_key
    /\ host.wmi.kind = "Ok"
    /\ host.wmi.rows = <<OptionalFeature("VirtualMachinePlatform", 1),
                         OptionalFeature("Microsoft-Windows-Subsystem-Linux", 2)>>

====
